---- MODULE Spec2Model ----
(***************************************************************************)
(* Model of the SMS retention bot's conversation core: the IntentionFlow   *)
(* state machine (fsm.py), the per-phone UserContext and its persisted     *)
(* FSMState row (user_context.py), the FSM tools (main_intent.py) and the  *)
(* tool-calling generation loop (gpt.py) with its /sms and CLI callers     *)
(* (app.py, main.py).  One phone number is modelled.                       *)
(***************************************************************************)
EXTENDS Integers, Sequences, FiniteSets, TLC

VARIABLES
    fsm,            \* the IntentionFlow of the live UserContext: state, confused_count, was_ever_interested
    row,            \* the FSMState row of the phone (present, statename, was_interested)
    pc,             \* position of the turn: idle, awaiting (a service call is out), tools, returned, raised
    origin,         \* caller of the running / last turn: none, sms, cli
    force_tool_next,\* generate_response's local flag
    tool_choice,    \* tool_choice of the outstanding / last service call
    calls,          \* service calls made in this turn (saturates at MaxCalls)
    answer,         \* tool names of the service answer being processed
    position,       \* how many tool calls of that answer were executed and got a tool-result message
    reply,          \* what the turn answered with ("" while none)
    raised,         \* exception type that left generate_response ("" while none)
    http,           \* status the /sms handler answered with (0 while none)
    appended,       \* appends to _contexts[phone] made inside generate_response in this turn
    logged,         \* calls of log_message_to_db made inside generate_response in this turn
    recorded,       \* calls of insert_with_db_instance made by the caller in this turn
    turns,          \* the requests that run side by side for the phone, each with its own UserContext
    obs             \* record of the last operation: what it was and how it ended

vars == <<fsm, row, pc, origin, force_tool_next, tool_choice, calls, answer, position,
          reply, raised, http, appended, logged, recorded, turns, obs>>

loopVars == <<pc, origin, force_tool_next, tool_choice, calls, answer, position,
              reply, raised, http, appended, logged, recorded>>

turnVars == <<loopVars, turns>>

----------------------------------------------------------------------------
(* Bounds of the model *)

MaxConfused == 4        \* retry_confused is not drawn once confused_count has reached this
MaxCalls == 3           \* the per-turn service-call counter saturates here
MaxToolCalls == 2       \* longest list of tool calls in one service answer
MaxUpdates == 1         \* update_fsm calls one of the side-by-side requests makes

\* The one element of a singleton set: Only({F(x) : x \in {e}}) is F(e) with e
\* evaluated once.
Only(S) == CHOOSE x \in S : TRUE

----------------------------------------------------------------------------
(* fsm.py: IntentionFlow *)

States == {"start", "interested", "action_sqft", "confused", "not_interested",
           "follow_up", "pause", "stop", "done"}

EXPLICIT_TRIGGERS == {"receive_positive_response", "go_to_sqft", "receive_followup",
                      "complete_flow", "receive_negative_response", "user_stopped",
                      "retry_confused", "pause_flow", "resume_flow", "polite_ack"}

\* Machine(auto_transitions=True) adds to_<state> for every state.
AutoTrigger(s) == CASE s = "start" -> "to_start"
                    [] s = "interested" -> "to_interested"
                    [] s = "action_sqft" -> "to_action_sqft"
                    [] s = "confused" -> "to_confused"
                    [] s = "not_interested" -> "to_not_interested"
                    [] s = "follow_up" -> "to_follow_up"
                    [] s = "pause" -> "to_pause"
                    [] s = "stop" -> "to_stop"
                    [] s = "done" -> "to_done"

AutoTriggers == {AutoTrigger(s) : s \in States}

\* Callable attributes of the flow object that are not triggers.
FlowMethods == {"snapshot", "mark_interested", "increment_confused", "max_confused"}

\* Non-callable attributes of the flow object.
FlowFields == {"name", "confused_count"}

UnknownNames == {"not_a_real_trigger"}

EventNames == EXPLICIT_TRIGGERS \cup AutoTriggers \cup FlowMethods \cup FlowFields \cup UnknownNames

\* A transition table in which every trigger is registered for every state.
Sources_everywhere(t) == States

\* add_transition(trigger, source, dest): the sources of each explicit trigger.
Sources(t) ==
    CASE t = "receive_positive_response" -> {"start", "confused", "pause"}
      [] t = "go_to_sqft" -> {"interested", "start", "confused"}
      [] t = "receive_followup" -> {"action_sqft", "interested"}
      [] t = "complete_flow" -> {"follow_up"}
      [] t = "receive_negative_response" -> States
      [] t = "user_stopped" -> States
      [] t = "retry_confused" -> States
      [] t = "pause_flow" -> {"confused"}
      [] t = "resume_flow" -> {"pause"}
      [] t = "polite_ack" -> {"follow_up"}
      [] t \in AutoTriggers -> States
      [] OTHER -> {}

Dest(t) ==
    CASE t = "receive_positive_response" -> "interested"
      [] t = "go_to_sqft" -> "action_sqft"
      [] t = "receive_followup" -> "follow_up"
      [] t = "complete_flow" -> "done"
      [] t = "receive_negative_response" -> "not_interested"
      [] t = "user_stopped" -> "stop"
      [] t = "retry_confused" -> "confused"
      [] t = "pause_flow" -> "pause"
      [] t = "resume_flow" -> "start"
      [] t = "polite_ack" -> "done"
      [] OTHER -> CHOOSE s \in States : AutoTrigger(s) = t

\* IntentionFlow.__init__
NewFlow == [state |-> "start", confused_count |-> 0, was_ever_interested |-> FALSE]

\* A guard that needs more than three.
max_confused_above_three(f) == f.confused_count > 3

\* IntentionFlow.max_confused
max_confused(f) == f.confused_count >= 3

snapshot(f) == [flow_state |-> f.state, confused_count |-> f.confused_count,
                was_ever_interested |-> f.was_ever_interested]

\* Result of calling something on the flow: the flow afterwards and the exception
\* type that came out ("" when none).
Out(f, exc) == [fsm |-> f, exc |-> exc]

\* Only interested has the on_enter callback.
EntersInterested_first_only(s) == s = "interested"

\* Only action_sqft has the on_enter callback.
EntersInterested_sqft_only(s) == s = "action_sqft"

\* States whose on_enter is mark_interested.
EntersInterested(s) == s \in {"interested", "action_sqft"}

\* pause_flow: source confused, conditions max_confused.  Callbacks and conditions
\* are called with the trigger's kwargs, which max_confused does not accept.
\* A machine built with ignore_invalid_triggers=True.
invalid_trigger_ignored(f) == Out(f, "")

\* Machine(...) is built without ignore_invalid_triggers: a trigger fired in a
\* state that is not one of its sources raises MachineError.
invalid_trigger(f) == Out(f, "MachineError")

pause_flow(f, kw) ==
    IF f.state \notin Sources("pause_flow") THEN invalid_trigger(f)
    ELSE IF kw THEN Out(f, "TypeError")
    ELSE IF max_confused(f) THEN Out([f EXCEPT !.state = "pause"], "")
    ELSE Out(f, "")

\* An increment that never pauses.
increment_confused_no_pause(f) == Out([f EXCEPT !.confused_count = @ + 1], "")

\* after='increment_confused'
increment_confused(f) ==
    LET g == [f EXCEPT !.confused_count = @ + 1]
    IN IF max_confused(g) THEN pause_flow(g, FALSE) ELSE Out(g, "")

\* Firing trigger t (explicit or to_<state>) with or without kwargs.
Fire(f, t, kw) ==
    IF f.state \notin Sources(t) THEN invalid_trigger(f)
    ELSE IF t = "pause_flow" THEN pause_flow(f, kw)
    ELSE LET moved == [f EXCEPT !.state = Dest(t)]
         IN IF EntersInterested(Dest(t))
            THEN IF kw THEN Out(moved, "TypeError")
                 ELSE Out([moved EXCEPT !.was_ever_interested = TRUE], "")
            ELSE IF t = "retry_confused"
            THEN IF kw THEN Out(moved, "TypeError") ELSE increment_confused(moved)
            ELSE Out(moved, "")

\* A machine whose final states offer no trigger at all.
get_triggers_live_only(s) ==
    IF s \in {"not_interested", "stop", "done"} THEN {}
    ELSE {t \in EXPLICIT_TRIGGERS \cup AutoTriggers : s \in Sources(t)}

\* machine.get_triggers(state): explicit and auto-generated triggers.
get_triggers(s) == {t \in EXPLICIT_TRIGGERS \cup AutoTriggers : s \in Sources(t)}

----------------------------------------------------------------------------
(* user_context.py: UserContext and the FSMState row *)

NoRow == [present |-> FALSE, statename |-> "start", was_interested |-> FALSE]

Row(s, w) == [present |-> TRUE, statename |-> s, was_interested |-> w]

\* Result of a UserContext operation: flow, row, returned value, exception type.
Res(f, r, ret, exc) == [fsm |-> f, row |-> r, ret |-> ret, exc |-> exc]

\* UserContext._load_existing_fsm_flags, after IntentionFlow(name=phone_number)
load_existing_fsm_flags(f, r) ==
    IF r.present /\ r.was_interested THEN [f EXCEPT !.was_ever_interested = TRUE] ELSE f

\* UserContext.__init__: a fresh flow, then the persisted flag.
UserContextInit(r) == load_existing_fsm_flags(NewFlow, r)

\* A set_current_state that inserts a missing row but leaves an existing one alone.
set_current_state_insert_only(f, r, state_name, dbFail) ==
    IF dbFail THEN Res(f, r, "", "DBError")
    ELSE IF r.present THEN Res(f, r, "", "")
    ELSE Res(f, Row(state_name, f.was_ever_interested), "", "")

\* UserContext.set_current_state(state_name); dbFail: the DB raises.
set_current_state(f, r, state_name, dbFail) ==
    IF dbFail THEN Res(f, r, "", "DBError")
    ELSE IF r.present
    THEN Res(f, Row(state_name, r.was_interested \/ f.was_ever_interested), "", "")
    ELSE Res(f, Row(state_name, f.was_ever_interested), "", "")

\* A get_current_state in which the persisted statename wins over the flow's state.
get_current_state_persisted_wins(f, r, dbFail) ==
    IF dbFail THEN Res(f, r, "", "DBError")
    ELSE IF ~r.present THEN Res(f, Row(f.state, f.was_ever_interested), f.state, "")
    ELSE Res([f EXCEPT !.state = r.statename,
                       !.was_ever_interested = @ \/ r.was_interested],
             r, r.statename, "")

\* UserContext.get_current_state(); dbFail: the DB raises.
get_current_state(f, r, dbFail) ==
    LET current_mem_state == f.state
        current_interest == f.was_ever_interested
    IN IF dbFail THEN Res(f, r, "", "DBError")
       ELSE IF ~r.present
       THEN Res(f, Row(current_mem_state, current_interest), current_mem_state, "")
       ELSE LET f2 == IF r.was_interested THEN [f EXCEPT !.was_ever_interested = TRUE] ELSE f
                r1 == IF r.statename # current_mem_state
                      THEN [r EXCEPT !.statename = current_mem_state] ELSE r
                r2 == IF current_interest /\ ~r1.was_interested
                      THEN [r1 EXCEPT !.was_interested = TRUE] ELSE r1
            IN Res(f2, r2, r2.statename, "")

\* What calling attribute `name` of the flow does (trigger_fn(**kwargs)).
CallAttr(f, name, kw) ==
    IF name \in EXPLICIT_TRIGGERS \cup AutoTriggers THEN Fire(f, name, kw)
    ELSE IF name \in FlowFields THEN Out(f, "TypeError")
    ELSE IF kw THEN Out(f, "TypeError")
    ELSE IF name = "mark_interested" THEN Out([f EXCEPT !.was_ever_interested = TRUE], "")
    ELSE IF name = "increment_confused" THEN increment_confused(f)
    ELSE Out(f, "")

\* trigger_event after trigger_fn(**kwargs): what it raised propagates; otherwise the
\* state is persisted, and an exception of set_current_state is swallowed.
persist_after_fire(fired, r, dbFail) ==
    IF fired.exc # "" THEN Res(fired.fsm, r, "", fired.exc)
    ELSE Res(fired.fsm, set_current_state(fired.fsm, r, fired.fsm.state, dbFail).row, "True", "")

\* UserContext.trigger_event(event_name, **kwargs)
trigger_event(f, r, event_name, kw, dbFail) ==
    IF event_name \in UnknownNames THEN Res(f, r, "", "ValueError")
    ELSE Only({persist_after_fire(fired, r, dbFail) : fired \in {CallAttr(f, event_name, kw)}})

\* Intent strings a caller may pass: the mapped ones, an unmapped one, the empty one.
Intents == {"yes", "no", "stop", "confused", "resume", "sqft_ready", "followup", "complete",
            "maybe", ""}

\* A map in which followup and complete are exchanged.
intent_map_exchanged(intent) ==
    CASE intent = "yes" -> "receive_positive_response"
      [] intent = "no" -> "receive_negative_response"
      [] intent = "stop" -> "user_stopped"
      [] intent = "confused" -> "retry_confused"
      [] intent = "resume" -> "resume_flow"
      [] intent = "sqft_ready" -> "go_to_sqft"
      [] intent = "followup" -> "complete_flow"
      [] intent = "complete" -> "receive_followup"
      [] OTHER -> "None"

\* intent_map.get(intent) of change_state_from_intent; "None" when unmapped.
intent_map(intent) ==
    CASE intent = "yes" -> "receive_positive_response"
      [] intent = "no" -> "receive_negative_response"
      [] intent = "stop" -> "user_stopped"
      [] intent = "confused" -> "retry_confused"
      [] intent = "resume" -> "resume_flow"
      [] intent = "sqft_ready" -> "go_to_sqft"
      [] intent = "followup" -> "receive_followup"
      [] intent = "complete" -> "complete_flow"
      [] OTHER -> "None"

\* UserContext.change_state_from_intent(intent, **kwargs)
change_state_from_intent(f, r, intent, kw, dbFail) ==
    LET trigger == intent_map(intent)
    IN IF trigger = "None" THEN Res(f, r, "", "ValueError")
       ELSE trigger_event(f, r, trigger, kw, dbFail)

\* One text for every snapshot.
reply_for_state_one_text(snap) == "I didn't catch that, mind rephrasing?"

\* UserContext.reply_for_state(snap); the em dashes of the texts are written "--".
reply_for_state(snap) ==
    LET state == IF "flow_state" \in DOMAIN snap THEN snap.flow_state ELSE "start"
    IN CASE state = "start" -> "Hey! Quick check-in--are you still seeing any pest activity?"
         [] state = "interested" -> "Great--roughly how many square feet is the area you want serviced?"
         [] state = "action_sqft" -> "Please let me know the square footage of your property."
         [] state = "follow_up" -> "Thanks I've noted those details. We will reach out with a booking"
         [] state = "done" -> "All set--thanks! We will reach out if anything is needed"
         [] state = "not_interested" -> "Thank you, no problem. Bye"
         [] state = "pause" -> "Let's pause for now. Ping me 'resume' when you're ready."
         [] state = "stop" -> "You're opted out"
         [] state = "confused" -> "Sorry, could you clarify?"
         [] OTHER -> "I didn't catch that, mind rephrasing?"

----------------------------------------------------------------------------
(* main_intent.py: the tools *)

\* The rules without the two go_to_sqft rules.
coerce_event_without_sqft_rules(state, event_name) ==
    IF state = "follow_up"
       /\ event_name \in {"retry_confused", "receive_positive_response", "resume_flow"}
    THEN <<"polite_ack", "coerced_from_follow_up_ack">>
    ELSE IF state = "pause" /\ event_name \notin {"user_stopped"}
    THEN <<event_name, "noop_if_invalid_in_pause">>
    ELSE <<event_name, "None">>

\* Only the follow_up rule.
coerce_event_follow_up_only(state, event_name) ==
    IF state = "follow_up"
       /\ event_name \in {"retry_confused", "receive_positive_response", "resume_flow"}
    THEN <<"polite_ack", "coerced_from_follow_up_ack">>
    ELSE <<event_name, "None">>

\* No coercion at all: the requested event is the one fired.
coerce_event_as_requested(state, event_name) == <<event_name, "None">>

\* _coerce_event(state, event_name): <<final_event_name, reason>>, reason "None" if no coercion.
coerce_event(state, event_name) ==
    IF state = "follow_up"
       /\ event_name \in {"retry_confused", "receive_positive_response", "resume_flow"}
    THEN <<"polite_ack", "coerced_from_follow_up_ack">>
    ELSE IF state = "action_sqft" /\ event_name \in {"go_to_sqft"}
    THEN <<"receive_followup", "coerced_from_gotosqft">>
    ELSE IF state = "interested" /\ event_name \in {"go_to_sqft"}
    THEN <<"receive_followup", "coerced_from_gotosqft_and_interested">>
    ELSE IF state = "pause" /\ event_name \notin {"user_stopped"}
    THEN <<event_name, "noop_if_invalid_in_pause">>
    ELSE <<event_name, "None">>

\* A resolver that does not filter (as _get_allowed_triggers_prod).
get_allowed_triggers_unfiltered(state) == get_triggers(state)

\* _get_allowed_triggers(state, user): the explicit triggers among get_triggers(state).
\* (Its own call of user.get_current_state() is part of tool_update_fsm below.)
get_allowed_triggers(state) == EXPLICIT_TRIGGERS \cap get_triggers(state)

\* tool_update_fsm uses the database in get_current_state (line 66), in
\* trigger_event's set_current_state (115) and in get_current_state (117):
\* fails[i] says that the i-th of these raises.  When the first raises the
\* others are not reached.  (_get_allowed_triggers reads right after a read
\* that succeeded, lines 85 and 130, and swallows what it raises.)
FailureVectors == {v \in [{1, 2, 3} -> BOOLEAN] : v[1] => (~v[2] /\ ~v[3])}

NoFailure == [i \in {1, 2, 3} |-> FALSE]

\* During a conversation turn the database answers every read; the write of
\* trigger_event may fail (and is swallowed).
TurnFailures == {v \in FailureVectors : ~v[1] /\ ~v[3]}

\* user.get_current_state() inside _get_allowed_triggers: an exception is swallowed.
quiet_get_current_state(f, r, dbFail) ==
    LET g == get_current_state(f, r, dbFail)
    IN IF g.exc # "" THEN Res(f, r, "", "") ELSE Res(g.fsm, g.row, g.ret, "")

\* The rejection payload (first return of tool_update_fsm).
Rejection(coercion, event_name, state_before, allowed, snap) ==
    [applied |-> FALSE, reason |-> "invalid_trigger_for_state", coercion |-> coercion,
     event_requested |-> event_name, event |-> "None",
     from_state |-> state_before, to_state |-> state_before,
     allowed_triggers |-> allowed, fsm |-> snap, error |-> ""]

\* The payload of the other returns (event/from_state/to_state shape).
Outcome(applied, reason, event_name, event, from_state, to_state, allowed, snap, error) ==
    [applied |-> applied, reason |-> reason, coercion |-> "absent",
     event_requested |-> event_name, event |-> event,
     from_state |-> from_state, to_state |-> to_state,
     allowed_triggers |-> allowed, fsm |-> snap, error |-> error]

NoResult == [applied |-> FALSE, reason |-> "raised", coercion |-> "absent",
             event_requested |-> "", event |-> "None", from_state |-> "", to_state |-> "",
             allowed_triggers |-> {}, fsm |-> snapshot(NewFlow), error |-> ""]

\* What a tool leaves: flow, row, exception that left the tool, its JSON result.
ToolRes(f, r, exc, result) == [fsm |-> f, row |-> r, exc |-> exc, result |-> result]

\* A tool that reports every fire that did not raise as applied.
update_after_fire_always_applied(g4, t, event_name, event_to_fire, state_before, allowed, snap_before) ==
    ToolRes(g4.fsm, g4.row, "",
            Outcome(TRUE, "None", event_name, event_to_fire, state_before, g4.fsm.state,
                    get_allowed_triggers(g4.fsm.state), snapshot(g4.fsm), ""))

\* tool_update_fsm from line 117 on: the trigger has fired without raising (t);
\* g4 is the read of state_after.
update_after_fire(g4, t, event_name, event_to_fire, state_before, allowed, snap_before) ==
    IF g4.exc # ""
    THEN ToolRes(t.fsm, t.row, "",
                 Outcome(FALSE, "unexpected_error", event_name, event_to_fire,
                         state_before, state_before, allowed, snap_before, g4.exc))
    ELSE LET state_after == g4.ret
             post_transition_snapshot == snapshot(g4.fsm)
             changed == state_after # state_before
             new_allowed == get_allowed_triggers(state_after)
             g5 == quiet_get_current_state(g4.fsm, g4.row, FALSE)
         IN ToolRes(g5.fsm, g5.row, "",
                    Outcome(changed, IF changed THEN "None" ELSE "no_state_change",
                            event_name, event_to_fire, state_before, state_after,
                            new_allowed, post_transition_snapshot, ""))

\* A tool without its except branches: what trigger_event raises leaves the tool.
update_after_trigger_uncaught(t, event_name, event_to_fire, state_before, allowed, snap_before, fails) ==
    ToolRes(t.fsm, t.row, t.exc, NoResult)

\* tool_update_fsm from line 115 on: t is what user.trigger_event did.
update_after_trigger(t, event_name, event_to_fire, state_before, allowed, snap_before, fails) ==
    IF t.exc = "MachineError"
    THEN ToolRes(t.fsm, t.row, "",
                 Outcome(FALSE, "machine_error", event_name, event_to_fire,
                         state_before, state_before, allowed, snap_before, t.exc))
    ELSE IF t.exc # ""
    THEN ToolRes(t.fsm, t.row, "",
                 Outcome(FALSE, "unexpected_error", event_name, event_to_fire,
                         state_before, state_before, allowed, snap_before, t.exc))
    ELSE Only({update_after_fire(g4, t, event_name, event_to_fire, state_before, allowed,
                                 snap_before)
               : g4 \in {get_current_state(t.fsm, t.row, fails[3])}})

\* A validation that refuses only names that are no explicit trigger.
is_rejected_if_unknown(allowed, event_to_fire) == event_to_fire \notin EXPLICIT_TRIGGERS

\* The validation of line 90: the coerced event is refused.
is_rejected(allowed, event_to_fire) == allowed # {} /\ event_to_fire \notin allowed

\* tool_update_fsm from line 67 on: g1 is the read of state_before, which succeeded,
\* followed by the read _get_allowed_triggers makes (line 85).
update_after_read(g1, event_name, kw, fails) ==
    LET state_before == g1.ret
        fsm_snapshot_before == snapshot(g1.fsm)
        co == coerce_event(state_before, event_name)
        event_to_fire == co[1]
        coercion_reason == co[2]
        allowed == get_allowed_triggers(state_before)
    IN IF is_rejected(allowed, event_to_fire)
       THEN ToolRes(g1.fsm, g1.row, "",
                    Rejection(coercion_reason, event_name, state_before, allowed,
                              fsm_snapshot_before))
       ELSE Only({update_after_trigger(t, event_name, event_to_fire, state_before,
                                       allowed, fsm_snapshot_before, fails)
                  : t \in {trigger_event(g1.fsm, g1.row, event_to_fire, kw, fails[2])}})

\* tool_update_fsm(user, event_name, kwargs); kw: kwargs is non-empty;
\* fails[i]: the i-th use of the database raises.
tool_update_fsm(f, r, event_name, kw, fails) ==
    Only({IF g1.exc # "" THEN ToolRes(f, r, g1.exc, NoResult)
          ELSE Only({update_after_read(g2, event_name, kw, fails)
                     : g2 \in {quiet_get_current_state(g1.fsm, g1.row, FALSE)}})
          : g1 \in {get_current_state(f, r, fails[1])}})

\* tool_get_user_context(user): two uses of the database, neither guarded.
tool_get_user_context(f, r, fail1, fail2) ==
    LET snap == snapshot(f)
        g1 == get_current_state(f, r, fail1)
    IN IF g1.exc # "" THEN ToolRes(f, r, g1.exc, [current_state |-> ""])
       ELSE LET g2 == get_current_state(g1.fsm, g1.row, fail2)
            IN IF g2.exc # "" THEN ToolRes(g1.fsm, g1.row, g2.exc, [current_state |-> ""])
               ELSE ToolRes(g2.fsm, g2.row, "",
                            [current_state |-> g1.ret,
                             allowed_triggers |-> get_triggers(g2.ret),
                             fsm |-> snap])

\* tool_get_fsm_reply(user)
tool_get_fsm_reply(f) == [reply |-> reply_for_state(snapshot(f)), fsm |-> snapshot(f)]

----------------------------------------------------------------------------
(* State after construction: main.py build_user on a phone with no FSMState row *)

\* Requests for the phone that may run side by side (two /sms workers).
TurnIds == {1, 2}

\* A request that has not arrived yet: no UserContext built.
NoTurn == [at |-> "none", fsm |-> NewFlow, event |-> "None", updates |-> 0]

\* ctx: each request's position and UserContext; last: the request whose
\* trigger_event was the latest to apply a transition (0: none yet).
NoTurns == [ctx |-> [p \in TurnIds |-> NoTurn], last |-> 0]

NoObs == [op |-> "none"]

Init ==
    /\ fsm = UserContextInit(NoRow)
    /\ row = NoRow
    /\ pc = "idle"
    /\ origin = "none"
    /\ force_tool_next = FALSE
    /\ tool_choice = "none"
    /\ calls = 0
    /\ answer = <<>>
    /\ position = 0
    /\ reply = ""
    /\ raised = ""
    /\ http = 0
    /\ appended = 0
    /\ logged = 0
    /\ recorded = 0
    /\ turns = NoTurns
    /\ obs = NoObs

\* No turn is running: operations are called one at a time.
Idle == pc \in {"idle", "returned", "raised"}

\* Event names a caller may pass: retry_confused is not drawn at the counter's bound.
Drawable(f, event_name) ==
    f.confused_count >= MaxConfused
        => event_name \notin {"retry_confused", "increment_confused"}

----------------------------------------------------------------------------
(* Operations called directly on the UserContext and the tools (CLI, batch, tests) *)

\* UserContext(phone): main.py build_user (line 59); dbFail: _ensure_phone_in_db raises.
BuildUser ==
    /\ Idle
    /\ \E dbFail \in BOOLEAN :
         /\ fsm' = IF dbFail THEN fsm ELSE UserContextInit(row)
         /\ obs' = [op |-> "UserContext", exc |-> IF dbFail THEN "DBError" ELSE ""]
    /\ UNCHANGED <<row, turnVars>>

\* ConversationApp.reset_state: delete the row, clear the context, a new UserContext.
ResetState ==
    /\ Idle
    /\ row' = NoRow
    /\ fsm' = UserContextInit(NoRow)
    /\ obs' = [op |-> "reset_state"]
    /\ UNCHANGED turnVars

\* user.get_current_state() (main.py setup, should_exit_stateful); the record keeps
\* the flow and the row the call was made on.
GetCurrentState ==
    /\ Idle
    /\ \E dbFail \in BOOLEAN :
         \E g \in {get_current_state(fsm, row, dbFail)} :
            /\ fsm' = g.fsm
            /\ row' = g.row
            /\ obs' = [op |-> "get_current_state", ret |-> g.ret, exc |-> g.exc,
                       flow_before |-> fsm, row_before |-> row]
    /\ UNCHANGED turnVars

\* user.trigger_event(event_name, **kwargs) (main.py handle_stop and callers)
TriggerEvent ==
    /\ Idle
    /\ \E event_name \in EventNames, kw \in BOOLEAN, dbFail \in BOOLEAN :
         /\ Drawable(fsm, event_name)
         /\ \E t \in {trigger_event(fsm, row, event_name, kw, dbFail)} :
               /\ fsm' = t.fsm
               /\ row' = t.row
               /\ obs' = [op |-> "trigger_event", ret |-> t.ret, exc |-> t.exc]
    /\ UNCHANGED turnVars

\* tool_get_user_context(user) called directly; the record keeps the flow and the
\* row the call was made on and what the payload lists.
GetUserContext ==
    /\ Idle
    /\ \E fail1 \in BOOLEAN, fail2 \in BOOLEAN :
         /\ fail1 => ~fail2
         /\ \E c \in {tool_get_user_context(fsm, row, fail1, fail2)} :
               /\ fsm' = c.fsm
               /\ row' = c.row
               /\ obs' = [op |-> "get_user_context", exc |-> c.exc,
                          current_state |-> c.result.current_state,
                          allowed_triggers |-> IF c.exc = "" THEN c.result.allowed_triggers
                                               ELSE {},
                          flow_before |-> fsm, row_before |-> row]
    /\ UNCHANGED turnVars

\* user.change_state_from_intent(intent, **kwargs) called directly
ChangeStateFromIntent ==
    /\ Idle
    /\ \E intent \in Intents, kw \in BOOLEAN, dbFail \in BOOLEAN :
         /\ Drawable(fsm, intent_map(intent))
         /\ \E t \in {change_state_from_intent(fsm, row, intent, kw, dbFail)} :
               /\ fsm' = t.fsm
               /\ row' = t.row
               /\ obs' = [op |-> "change_state_from_intent", intent |-> intent,
                          ret |-> t.ret, exc |-> t.exc,
                          flow_before |-> fsm, row_before |-> row]
    /\ UNCHANGED turnVars

\* Snapshots a caller may hand to reply_for_state: of any state or of a state name
\* that does not exist, with any count and flag, or without a flow_state.
Snaps ==
    {[flow_state |-> s, confused_count |-> c, was_ever_interested |-> w] :
        s \in States \cup {"no_such_state"}, c \in 0..MaxConfused, w \in BOOLEAN}
    \cup {[confused_count |-> c, was_ever_interested |-> w] :
             c \in 0..MaxConfused, w \in BOOLEAN}

\* user.reply_for_state(snap) called directly, next to a flow
ReplyForState ==
    /\ Idle
    /\ \E snap \in Snaps \cup {snapshot(fsm)} :
         obs' = [op |-> "reply_for_state", snap |-> snap, ret |-> reply_for_state(snap),
                 flow_before |-> fsm, row_before |-> row]
    /\ UNCHANGED <<fsm, row, turnVars>>

\* An edit that sets the flag from the chosen state alone.
conversation_edit_forgets(r, new_state) ==
    IF new_state \notin States THEN r
    ELSE Row(new_state, new_state \in {"interested", "action_sqft"})

\* app.py conversation_edit, POST: the row after an admin has chosen new_state.
conversation_edit(r, new_state) ==
    LET mark_interested == new_state \in {"interested", "action_sqft"}
    IN IF new_state \notin States THEN r
       ELSE IF r.present THEN Row(new_state, r.was_interested \/ mark_interested)
       ELSE Row(new_state, mark_interested)

\* POST /conversations/<phone>/edit with one of the nine states or another value
ConversationEdit ==
    /\ Idle
    /\ \E new_state \in States \cup {"no_such_state"} :
         /\ row' = conversation_edit(row, new_state)
         /\ obs' = [op |-> "conversation_edit", state |-> new_state]
    /\ UNCHANGED <<fsm, turnVars>>

\* IntentionFlow(name): a fresh flow object (tests, simulate_all_paths).
NewIntentionFlow ==
    /\ Idle
    /\ fsm' = NewFlow
    /\ obs' = [op |-> "IntentionFlow"]
    /\ UNCHANGED <<row, turnVars>>

\* The confused_count values seen before each of the retry_confused calls that were
\* fired in a row up to now (the last three of them), c being the newest.
RetryWindow(c) ==
    LET before == IF obs.op = "fire" THEN obs.window ELSE <<>>
        all == Append(before, c)
    IN IF Len(all) > 3 THEN Tail(all) ELSE all

\* flow.<trigger>(**kwargs): an explicit trigger fired directly on the flow object;
\* the record keeps the flow it was fired on and the run of retry_confused calls
\* that returned.
FireOnFlow ==
    /\ Idle
    /\ \E t \in EXPLICIT_TRIGGERS, kw \in BOOLEAN :
         /\ Drawable(fsm, t)
         /\ \E fired \in {Fire(fsm, t, kw)} :
               /\ fsm' = fired.fsm
               /\ obs' = [op |-> "fire", trigger |-> t, kw |-> kw, exc |-> fired.exc,
                          flow_before |-> fsm,
                          window |-> IF t = "retry_confused" /\ fired.exc = ""
                                     THEN RetryWindow(fsm.confused_count) ELSE <<>>]
    /\ UNCHANGED <<row, turnVars>>

\* flow.<trigger>(): an explicit trigger fired directly on the flow object with no
\* arguments at all, as simulate_all_paths and UserContext.trigger_event do.
FireOnFlowPlain ==
    /\ Idle
    /\ \E t \in EXPLICIT_TRIGGERS :
         /\ Drawable(fsm, t)
         /\ \E fired \in {Fire(fsm, t, FALSE)} :
               /\ fsm' = fired.fsm
               /\ obs' = [op |-> "fire", trigger |-> t, kw |-> FALSE, exc |-> fired.exc,
                          flow_before |-> fsm,
                          window |-> IF t = "retry_confused" /\ fired.exc = ""
                                     THEN RetryWindow(fsm.confused_count) ELSE <<>>]
    /\ UNCHANGED <<row, turnVars>>

\* _coerce_event(state, event_name) called on its own, next to a flow it is not given
CoerceEvent ==
    /\ Idle
    /\ \E state \in States, event_name \in EXPLICIT_TRIGGERS :
         obs' = [op |-> "coerce_event", state |-> state, event_name |-> event_name,
                 ret |-> coerce_event(state, event_name), flow_before |-> fsm]
    /\ UNCHANGED <<fsm, row, turnVars>>

UpdateObs(u, event_name) ==
    [op |-> "update_fsm", exc |-> u.exc, applied |-> u.result.applied,
     reason |-> u.result.reason, coercion |-> u.result.coercion,
     explicit |-> event_name \in EXPLICIT_TRIGGERS,
     event |-> u.result.event, as_requested |-> u.result.event = event_name]

\* tool_update_fsm(user, event_name, kwargs) called directly
UpdateFsm ==
    /\ Idle
    /\ \E event_name \in EventNames, kw \in BOOLEAN, fails \in FailureVectors :
         /\ Drawable(fsm, event_name)
         /\ \E u \in {tool_update_fsm(fsm, row, event_name, kw, fails)} :
               /\ fsm' = u.fsm
               /\ row' = u.row
               /\ obs' = UpdateObs(u, event_name)
    /\ UNCHANGED turnVars

----------------------------------------------------------------------------
(* gpt.py: GPTClient.generate_response, with its callers app.py sms_reply and
   main.py ConversationApp.handle_user_turn *)

ToolNames == {"get_user_context", "update_fsm", "get_fsm_reply", "not_a_real_tool"}

\* The tool calls of one service answer, by name, in the requested order.
Answers == UNION {[1..n -> ToolNames] : n \in 1..MaxToolCalls}

\* Event names the service passes to update_fsm: the explicit triggers, an
\* auto-generated trigger, another attribute of the flow, and an unknown name.
ServiceEvents == EXPLICIT_TRIGGERS \cup {"to_start", "snapshot"} \cup UnknownNames

\* Exceptions the service call can end with.
ServiceErrors == {"APIConnectionError"}

\* Text the service may answer with when it requests no tool.
ServiceContents == {"assistant says hi"}

GPT_FALLBACK_MESSAGE == "Sorry, we're having trouble replying automatically."

STOP_REPLY == "Messages Stopped"

\* The service-call counter saturates at MaxCalls.
Inc(n) == IF n < MaxCalls THEN n + 1 ELSE MaxCalls

\* What leaves generate_response when self._client.chat.completions.create raises.
chat_completion_error(underlying) == underlying

\* GPTClient.insert_with_db_instance: one context append, one log_message_to_db call.
insert_with_db_instance(n) == n + 1

\* How many times generate_response itself records a reply it returns.
RecordedByGenerate == insert_with_db_instance(0)

\* The reply of the no-tool-call fallback; content is the service's free text.
\* A loop that answers with the service's own text.
fallback_reply_is_content(f, content) == content

fallback_reply(f, content) == tool_get_fsm_reply(f).reply

\* How many times the caller records what generate_response gave it: main.py
\* records every reply, sms_reply records its fallback message on GPTServiceError.
RecordedByCaller(caller, exc) ==
    IF exc = "" THEN (IF caller = "cli" THEN insert_with_db_instance(0) ELSE 0)
    ELSE IF caller = "sms" /\ exc = "GPTServiceError" THEN insert_with_db_instance(0)
    ELSE 0

\* Status of the /sms handler.
SmsStatus(exc) == IF exc = "" \/ exc = "GPTServiceError" THEN 200 ELSE 500

\* generate_response ends, with reply rep (exc = "") or with exception exc, and the
\* caller finishes its handler.
Finish(rep, exc) ==
    /\ pc' = IF exc = "" THEN "returned" ELSE "raised"
    /\ raised' = exc
    /\ reply' = IF exc = "" THEN rep
                ELSE IF origin = "sms" /\ exc = "GPTServiceError" THEN GPT_FALLBACK_MESSAGE
                ELSE ""
    /\ appended' = IF exc = "" THEN RecordedByGenerate ELSE 0
    /\ logged' = IF exc = "" THEN RecordedByGenerate ELSE 0
    /\ recorded' = RecordedByCaller(origin, exc)
    /\ http' = IF origin = "sms" THEN SmsStatus(exc) ELSE 0

\* The start of generate_response: the first service call, tool_choice="required".
StartGenerate(caller) ==
    /\ pc' = "awaiting"
    /\ origin' = caller
    /\ force_tool_next' = FALSE
    /\ tool_choice' = "required"
    /\ calls' = 1
    /\ answer' = <<>>
    /\ position' = 0
    /\ reply' = ""
    /\ raised' = ""
    /\ http' = 0
    /\ appended' = 0
    /\ logged' = 0
    /\ recorded' = 0

\* POST /sms with a body that is no stop keyword: a new UserContext, then generate_response.
SmsReply ==
    /\ Idle
    /\ \E dbFail \in BOOLEAN :
         /\ obs' = [op |-> "UserContext", exc |-> IF dbFail THEN "DBError" ELSE ""]
         /\ IF dbFail
            THEN /\ pc' = "raised"
                 /\ origin' = "sms"
                 /\ raised' = "DBError"
                 /\ http' = 500
                 /\ reply' = ""
                 /\ calls' = 0
                 /\ answer' = <<>>
                 /\ position' = 0
                 /\ appended' = 0
                 /\ logged' = 0
                 /\ recorded' = 0
                 /\ tool_choice' = "none"
                 /\ UNCHANGED <<fsm, force_tool_next>>
            ELSE /\ fsm' = UserContextInit(row)
                 /\ StartGenerate("sms")
    /\ UNCHANGED row
    /\ UNCHANGED turns

\* POST /sms with a stop keyword: the row is set to stop (or inserted as stop), the
\* fixed reply is logged; no UserContext is built and the service is not called.
SmsStop ==
    /\ Idle
    /\ \E dbFail \in BOOLEAN :
         row' = IF dbFail THEN row
                ELSE IF row.present THEN [row EXCEPT !.statename = "stop"]
                ELSE Row("stop", FALSE)
    /\ pc' = "idle"
    /\ origin' = "sms"
    /\ http' = 200
    /\ reply' = STOP_REPLY
    /\ raised' = ""
    /\ calls' = 0
    /\ answer' = <<>>
    /\ position' = 0
    /\ appended' = 0
    /\ logged' = 0
    /\ recorded' = 0
    /\ tool_choice' = "none"
    /\ obs' = [op |-> "sms_stop"]
    /\ UNCHANGED <<fsm, force_tool_next>>
    /\ UNCHANGED turns

\* ConversationApp.handle_user_turn: generate_response on the long-lived UserContext.
HandleUserTurn ==
    /\ Idle
    /\ StartGenerate("cli")
    /\ obs' = [op |-> "handle_user_turn"]
    /\ UNCHANGED <<fsm, row>>
    /\ UNCHANGED turns

\* The service call raises.
ServiceFails ==
    /\ pc = "awaiting"
    /\ \E e \in ServiceErrors :
         /\ Finish("", chat_completion_error(e))
         /\ obs' = [op |-> "service_error", error |-> e]
    /\ UNCHANGED <<fsm, row, origin, force_tool_next, tool_choice, calls, answer, position>>
    /\ UNCHANGED turns

\* The service answers without tool calls.
ServiceText ==
    /\ pc = "awaiting"
    /\ \E content \in ServiceContents :
         /\ obs' = [op |-> "service_text", content |-> content, forced |-> force_tool_next]
         /\ IF force_tool_next
            THEN /\ tool_choice' = "required"
                 /\ calls' = Inc(calls)
                 /\ force_tool_next' = FALSE
                 /\ UNCHANGED <<pc, reply, raised, http, appended, logged, recorded>>
            ELSE /\ Finish(fallback_reply(fsm, content), "")
                 /\ UNCHANGED <<force_tool_next, tool_choice, calls>>
    /\ UNCHANGED <<fsm, row, origin, answer, position>>
    /\ UNCHANGED turns

\* The service answers with tool calls.
ServiceTools ==
    /\ pc = "awaiting"
    /\ \E a \in Answers : answer' = a
    /\ position' = 0
    /\ force_tool_next' = FALSE
    /\ pc' = "tools"
    /\ obs' = [op |-> "service_tools"]
    /\ UNCHANGED <<fsm, row, origin, tool_choice, calls, reply, raised, http,
                   appended, logged, recorded>>
    /\ UNCHANGED turns

\* The call the for-loop is at.
CurrentCall == answer[position + 1]

\* The same, with the call after the round always left to the service's choice.
Appended_choice_auto(force) ==
    /\ force_tool_next' = force
    /\ IF position + 1 = Len(answer)
       THEN /\ pc' = "awaiting"
            /\ tool_choice' = "auto"
            /\ calls' = Inc(calls)
            /\ answer' = <<>>
            /\ position' = 0
       ELSE /\ position' = position + 1
            /\ UNCHANGED <<pc, tool_choice, calls, answer>>
    /\ UNCHANGED <<origin, reply, raised, http, appended, logged, recorded>>

\* A tool-result message was appended for the current call; after the last call of
\* the answer the service is asked again.
Appended(force) ==
    /\ force_tool_next' = force
    /\ IF position + 1 = Len(answer)
       THEN /\ pc' = "awaiting"
            /\ tool_choice' = IF force THEN "required" ELSE "auto"
            /\ calls' = Inc(calls)
            /\ answer' = <<>>
            /\ position' = 0
       ELSE /\ position' = position + 1
            /\ UNCHANGED <<pc, tool_choice, calls, answer>>
    /\ UNCHANGED <<origin, reply, raised, http, appended, logged, recorded>>

\* json.loads of the call's arguments raises, or args["event_name"] is missing.
ExecBadArguments ==
    /\ pc = "tools"
    /\ \E problem \in {"malformed", "no_event_name"} :
         /\ problem = "no_event_name" => CurrentCall = "update_fsm"
         /\ Finish("", IF problem = "malformed" THEN "JSONDecodeError" ELSE "KeyError")
         /\ obs' = [op |-> "bad_arguments", problem |-> problem]
    /\ UNCHANGED <<fsm, row, origin, force_tool_next, tool_choice, calls, answer, position>>
    /\ UNCHANGED turns

\* tool_get_user_context(user); the database answers its reads.
ExecGetUserContext ==
    /\ pc = "tools"
    /\ CurrentCall = "get_user_context"
    /\ \E c \in {tool_get_user_context(fsm, row, FALSE, FALSE)} :
         /\ fsm' = c.fsm
         /\ row' = c.row
         /\ obs' = [op |-> "get_user_context", exc |-> c.exc]
         /\ Appended(force_tool_next)
    /\ UNCHANGED turns

\* tool_update_fsm(user, args["event_name"], kwargs=args.get("kwargs"))
ExecUpdateFsm ==
    /\ pc = "tools"
    /\ CurrentCall = "update_fsm"
    /\ \E event_name \in ServiceEvents, kw \in BOOLEAN, fails \in TurnFailures :
         /\ Drawable(fsm, event_name)
         /\ \E u \in {tool_update_fsm(fsm, row, event_name, kw, fails)} :
               /\ fsm' = u.fsm
               /\ row' = u.row
               /\ obs' = UpdateObs(u, event_name)
               /\ Appended(force_tool_next \/ ~u.result.applied)
    /\ UNCHANGED turns

\* tool_get_fsm_reply(user): the reply is recorded and returned.
ExecGetFsmReply ==
    /\ pc = "tools"
    /\ CurrentCall = "get_fsm_reply"
    /\ Finish(tool_get_fsm_reply(fsm).reply, "")
    /\ obs' = [op |-> "get_fsm_reply"]
    /\ UNCHANGED <<fsm, row, origin, force_tool_next, tool_choice, calls, answer, position>>
    /\ UNCHANGED turns

\* Any other tool name: an error payload is the tool result.
ExecUnknownTool ==
    /\ pc = "tools"
    /\ CurrentCall \notin {"get_user_context", "update_fsm", "get_fsm_reply"}
    /\ Appended(force_tool_next)
    /\ obs' = [op |-> "unknown_tool", result |-> "error"]
    /\ UNCHANGED <<fsm, row>>
    /\ UNCHANGED turns

----------------------------------------------------------------------------
(* app.py sms_reply run by several workers for one phone: each request builds its
   own UserContext (line 247) and its tool calls use the database one session at
   a time (user_context.py: get_current_state, set_current_state). *)

\* A request whose other requests are all finished or not begun.
MayStep_one_at_a_time(p) == \A q \in TurnIds \ {p} : turns.ctx[q].at \in {"none", "done"}

\* sms_reply takes no lock and keeps no per-phone queue: a request may take its
\* next step whatever the other requests are doing.
MayStep(p) == TRUE

\* Triggers the service asks for in these requests.
TurnEvents == {"receive_positive_response", "receive_negative_response", "go_to_sqft",
               "retry_confused"}

TurnObs(p, step) == [op |-> "turn", turn |-> p, step |-> step]

\* user_ctx = UserContext(str(from_number))
TurnBuildOf(p) ==
    /\ turns.ctx[p].at = "none"
    /\ MayStep(p)
    /\ turns' = [turns EXCEPT !.ctx[p].at = "built", !.ctx[p].fsm = UserContextInit(row)]
    /\ obs' = TurnObs(p, "UserContext")
    /\ UNCHANGED <<fsm, row, loopVars>>

TurnBuild == \E p \in TurnIds : TurnBuildOf(p)

\* tool_update_fsm up to its validation (lines 66-105): the state is read, which
\* writes the request's in-memory state to the row; a refused event ends the call.
TurnReadOf(p) ==
    /\ turns.ctx[p].at = "built"
    /\ turns.ctx[p].updates < MaxUpdates
    /\ MayStep(p)
    /\ \E event_name \in TurnEvents :
         \E g1 \in {get_current_state(turns.ctx[p].fsm, row, FALSE)} :
            \E g2 \in {quiet_get_current_state(g1.fsm, g1.row, FALSE)} :
               \E co \in {coerce_event(g1.ret, event_name)} :
                  /\ row' = g2.row
                  /\ turns' = [turns EXCEPT
                        !.ctx[p].fsm = g2.fsm,
                        !.ctx[p].updates = @ + 1,
                        !.ctx[p].at = IF is_rejected(get_allowed_triggers(g1.ret), co[1])
                                      THEN "built" ELSE "read",
                        !.ctx[p].event = IF is_rejected(get_allowed_triggers(g1.ret), co[1])
                                         THEN "None" ELSE co[1]]
    /\ obs' = TurnObs(p, "read")
    /\ UNCHANGED <<fsm, loopVars>>

TurnRead == \E p \in TurnIds : TurnReadOf(p)

\* user.trigger_event(event_to_fire) (line 115): the transition in memory, then the
\* row is set to the new state.
TurnTriggerOf(p) ==
    /\ turns.ctx[p].at = "read"
    /\ MayStep(p)
    /\ \E t \in {trigger_event(turns.ctx[p].fsm, row, turns.ctx[p].event, FALSE, FALSE)} :
         /\ row' = t.row
         /\ turns' = [turns EXCEPT
               !.ctx[p].fsm = t.fsm,
               !.ctx[p].at = IF t.exc = "" THEN "fired" ELSE "built",
               !.last = IF t.exc = "" /\ t.fsm.state # turns.ctx[p].fsm.state THEN p ELSE @]
    /\ obs' = TurnObs(p, "trigger_event")
    /\ UNCHANGED <<fsm, loopVars>>

TurnTrigger == \E p \in TurnIds : TurnTriggerOf(p)

\* tool_update_fsm after the trigger (lines 117-150): the state is read again.
TurnReadAfterOf(p) ==
    /\ turns.ctx[p].at = "fired"
    /\ MayStep(p)
    /\ \E g4 \in {get_current_state(turns.ctx[p].fsm, row, FALSE)} :
         \E g5 \in {quiet_get_current_state(g4.fsm, g4.row, FALSE)} :
            /\ row' = g5.row
            /\ turns' = [turns EXCEPT !.ctx[p].fsm = g5.fsm, !.ctx[p].at = "built"]
    /\ obs' = TurnObs(p, "read_after")
    /\ UNCHANGED <<fsm, loopVars>>

TurnReadAfter == \E p \in TurnIds : TurnReadAfterOf(p)

\* The request answers (get_fsm_reply or a plain answer): no use of the row.
TurnEndOf(p) ==
    /\ turns.ctx[p].at = "built"
    /\ MayStep(p)
    /\ turns' = [turns EXCEPT !.ctx[p].at = "done"]
    /\ obs' = TurnObs(p, "reply")
    /\ UNCHANGED <<fsm, row, loopVars>>

TurnEnd == \E p \in TurnIds : TurnEndOf(p)

----------------------------------------------------------------------------
(* Specifications *)

\* The UserContext, called one operation at a time.
Next == BuildUser \/ ResetState \/ GetCurrentState \/ TriggerEvent

Spec == Init /\ [][Next]_vars

\* The flow object alone: explicit triggers fired directly on it.
FlowNext == NewIntentionFlow \/ FireOnFlow

FlowSpec == Init /\ [][FlowNext]_vars

\* The bare flow, created and fired with explicit triggers without arguments.
PlainFlowNext == NewIntentionFlow \/ FireOnFlowPlain

PlainFlowSpec == Init /\ [][PlainFlowNext]_vars

\* A user built, reset and driven by trigger_event, and get_user_context called on it
ContextNext == BuildUser \/ ResetState \/ TriggerEvent \/ GetUserContext

ContextSpec == Init /\ [][ContextNext]_vars

\* A user built, reset and driven by intents
IntentNext == BuildUser \/ ResetState \/ ChangeStateFromIntent

IntentSpec == Init /\ [][IntentNext]_vars

\* The flow fired directly, and reply_for_state called on snapshots
ReplyNext == NewIntentionFlow \/ FireOnFlow \/ ReplyForState

ReplySpec == Init /\ [][ReplyNext]_vars

\* /sms requests for one phone whose steps interleave
ConcurrentNext == TurnBuild \/ TurnRead \/ TurnTrigger \/ TurnReadAfter \/ TurnEnd

ConcurrentSpec == Init /\ [][ConcurrentNext]_vars

\* Everything that writes the row: the UserContext, the stop keyword, the admin edit
RowNext ==
    BuildUser \/ ResetState \/ GetCurrentState \/ TriggerEvent \/ SmsStop \/ ConversationEdit

RowSpec == Init /\ [][RowNext]_vars

\* The flow fired directly, and _coerce_event called on its own
CoerceNext == NewIntentionFlow \/ FireOnFlow \/ CoerceEvent

CoerceSpec == Init /\ [][CoerceNext]_vars

ToolNext == BuildUser \/ ResetState \/ UpdateFsm

ToolSpec == Init /\ [][ToolNext]_vars

TurnStep ==
    \/ ServiceFails \/ ServiceText \/ ServiceTools
    \/ ExecBadArguments \/ ExecGetUserContext \/ ExecUpdateFsm \/ ExecGetFsmReply
    \/ ExecUnknownTool

\* /sms requests, each run to its end.
LoopNext == SmsReply \/ SmsStop \/ TurnStep

LoopSpec == Init /\ [][LoopNext]_vars

\* Turns of the command-line conversation on its long-lived UserContext.
CliNext == HandleUserTurn \/ TurnStep

CliSpec == Init /\ [][CliNext]_vars

\* A turn that can take a step eventually takes one.
FairLoopSpec == LoopSpec /\ WF_vars(TurnStep)

----------------------------------------------------------------------------
(* Properties *)

\* C1: a UserContext constructed for a phone whose persisted state is S starts
\* with its flow in state S.
C1_StartsInPersistedState ==
    (obs.op = "UserContext" /\ obs.exc = "" /\ row.present) => fsm.state = row.statename

\* get_current_state has returned on a user whose persisted statename differed from
\* the flow's state.
C2_Witness ==
    /\ obs.op = "get_current_state" /\ obs.exc = ""
    /\ obs.row_before.present
    /\ obs.row_before.statename # obs.flow_before.state

\* C2 as stated: when get_current_state is called while the persisted statename
\* differs from the flow's state, the call returns the persisted value and leaves
\* the persisted statename as it was.
C2_PersistedStateWins ==
    C2_Witness => (obs.ret = obs.row_before.statename
                   /\ row.statename = obs.row_before.statename)

\* C2 amended: when get_current_state is called while the persisted statename
\* differs from the flow's state, the flow's state wins: the call returns the flow's
\* state, leaves it unchanged and overwrites the persisted statename with it; a
\* persisted was_interested still becomes the flow's was_ever_interested.
C2_MemoryStateWins ==
    C2_Witness => /\ obs.ret = obs.flow_before.state
                  /\ fsm.state = obs.flow_before.state
                  /\ row.present /\ row.statename = obs.flow_before.state
                  /\ (obs.row_before.was_interested => fsm.was_ever_interested)

\* Requests whose trigger is not allowed in the state but which _coerce_event
\* redirects to a trigger that is.
Redirected ==
    {<<"follow_up", "receive_positive_response">>, <<"follow_up", "resume_flow">>,
     <<"action_sqft", "go_to_sqft">>}

\* update_fsm(T) on the current user refuses T and leaves the flow's state alone,
\* whatever the kwargs, when the database answers the first read.
RefusedHere(T) ==
    \A kw \in BOOLEAN, fails \in {v \in FailureVectors : ~v[1]} :
       \E u \in {tool_update_fsm(fsm, row, T, kw, fails)} :
          /\ u.exc = ""
          /\ u.result.applied = FALSE
          /\ u.result.reason = "invalid_trigger_for_state"
          /\ u.result.to_state = fsm.state
          /\ u.fsm.state = fsm.state

\* C3 as stated: for every state S and every explicit trigger T not in allowed(S),
\* update_fsm with requested trigger T on a user in S returns applied=false with
\* reason invalid_trigger_for_state and leaves the flow state equal to S.
C3_DisallowedRefused ==
    \A T \in EXPLICIT_TRIGGERS :
       T \notin get_allowed_triggers(fsm.state) => RefusedHere(T)

\* C3 amended: the same, except for the three requests that coercion redirects to
\* an allowed trigger (receive_positive_response and resume_flow in follow_up, fired
\* as polite_ack; go_to_sqft in action_sqft, fired as receive_followup).
C3_DisallowedRefusedUnlessRedirected ==
    \A T \in EXPLICIT_TRIGGERS :
       (T \notin get_allowed_triggers(fsm.state) /\ <<fsm.state, T>> \notin Redirected)
          => RefusedHere(T)

\* update_fsm has refused an explicit trigger.
C3_Witness ==
    /\ obs.op = "update_fsm" /\ obs.explicit
    /\ obs.applied = FALSE /\ obs.reason = "invalid_trigger_for_state"

\* C4: in state pause, update_fsm with any requested trigger other than user_stopped
\* returns applied=false with reason invalid_trigger_for_state and coercion
\* noop_if_invalid_in_pause, and the flow state remains pause.
C4_PauseRefusesAllButStop ==
    fsm.state = "pause" =>
       \A T \in EXPLICIT_TRIGGERS \ {"user_stopped"} :
          /\ RefusedHere(T)
          /\ tool_update_fsm(fsm, row, T, FALSE, NoFailure).result.coercion
                = "noop_if_invalid_in_pause"

\* C5: every turn that has begun ends, with a reply or with an error.
C5_TurnEnds == (pc \in {"awaiting", "tools"}) ~> (pc \in {"returned", "raised"})

\* C6: every reply returned by generate_response is the template text of the
\* statename persisted for the phone at the moment of return (a phone without a
\* row counts as start).
C6_ReplyIsPersistedTemplate ==
    pc = "returned" =>
       reply = reply_for_state([flow_state |-> IF row.present THEN row.statename
                                               ELSE "start"])

\* The first position of get_fsm_reply in the answer being processed.
FirstReply == CHOOSE i \in 1..Len(answer) :
                 answer[i] = "get_fsm_reply" /\ \A j \in 1..(i - 1) : answer[j] # "get_fsm_reply"

\* C7: when the turn ends inside an answer that contains a get_fsm_reply call, it
\* ends by returning get_fsm_reply's reply, after exactly the calls listed before it.
C7_ShortCircuit ==
    (pc \in {"returned", "raised"} /\ \E i \in 1..Len(answer) : answer[i] = "get_fsm_reply")
       => /\ pc = "returned"
          /\ position = FirstReply - 1
          /\ reply = tool_get_fsm_reply(fsm).reply

\* C8: when generate_response has returned, it has neither appended the reply to the
\* context nor called log_message_to_db.
C8_GenerateDoesNotRecord == pc = "returned" => (appended = 0 /\ logged = 0)

\* C9: a failed service call leaves generate_response as GPTServiceError, and /sms
\* answers 200 with its fallback message.
C9_ServiceFailureIsClassified ==
    obs.op = "service_error" =>
       /\ raised = "GPTServiceError"
       /\ origin = "sms" => (http = 200 /\ reply = GPT_FALLBACK_MESSAGE)

\* C10: when the arguments of a tool call do not parse, or update_fsm lacks
\* event_name, generate_response does not raise and the turn goes on.
C10_BadArgumentsAnswered ==
    obs.op = "bad_arguments" => (raised = "" /\ pc \in {"tools", "awaiting"})

\* The for-loop is at a call whose tool name is none of the three tools.
AtUnknownTool ==
    pc = "tools" /\ CurrentCall \notin {"get_user_context", "update_fsm", "get_fsm_reply"}

\* C11: a call of an unknown tool gets an error payload as its tool result without
\* failing the turn, changes neither the flow, the row nor the must-use-a-tool flag,
\* and after the last call of the answer another service call is made.
C11_UnknownToolAnswered ==
    [][AtUnknownTool =>
         /\ obs'.op = "unknown_tool" /\ obs'.result = "error"
         /\ raised' = "" /\ pc' \in {"tools", "awaiting"}
         /\ fsm' = fsm /\ row' = row
         /\ force_tool_next' = force_tool_next
         /\ position + 1 = Len(answer) => (pc' = "awaiting" /\ calls' = Inc(calls))]_vars

\* The last operation fired an explicit trigger on the flow.
Fired == obs.op = "fire"

Terminal == {"not_interested", "stop", "done"}

\* C12 as stated: a trigger fired in not_interested, stop or done changes the flow
\* state only if it is receive_negative_response (to not_interested) or user_stopped
\* (to stop).
C12_TerminalStates ==
    (Fired /\ obs.flow_before.state \in Terminal /\ fsm.state # obs.flow_before.state)
       => \/ obs.trigger = "receive_negative_response" /\ fsm.state = "not_interested"
          \/ obs.trigger = "user_stopped" /\ fsm.state = "stop"

\* C12 amended: a trigger fired in not_interested, stop or done changes the flow
\* state only if it is receive_negative_response (to not_interested), user_stopped
\* (to stop) or retry_confused (to confused, or to pause when confused_count reaches
\* 3); every other explicit trigger raises MachineError and leaves the flow as it was.
C12_TerminalButForRetry ==
    (Fired /\ obs.flow_before.state \in Terminal)
       => \/ obs.trigger = "receive_negative_response" /\ fsm.state = "not_interested"
          \/ obs.trigger = "user_stopped" /\ fsm.state = "stop"
          \/ obs.trigger = "retry_confused" /\ fsm.state \in {"confused", "pause"}
          \/ obs.exc = "MachineError" /\ fsm = obs.flow_before

\* A trigger other than the three universal ones was fired in a terminal state.
C12_Witness ==
    /\ Fired /\ obs.flow_before.state \in Terminal
    /\ obs.trigger \notin {"receive_negative_response", "user_stopped", "retry_confused"}

ThreeRetries == Fired /\ Len(obs.window) = 3

UndefinedHere == Fired /\ obs.flow_before.state \notin Sources(obs.trigger)

C16_UndefinedTriggerRaises ==
    /\ UndefinedHere => (obs.exc = "MachineError" /\ fsm = obs.flow_before)
    /\ (Fired /\ obs.flow_before.state = "start"
          /\ obs.trigger \in {"complete_flow", "resume_flow"}) => UndefinedHere

\* resume_flow was fired on a flow that is not paused and has a history.
C16_Witness ==
    /\ UndefinedHere
    /\ obs.trigger = "resume_flow"
    /\ obs.flow_before.confused_count > 0
    /\ obs.flow_before.was_ever_interested

\* C17: go_to_sqft is not allowed from start: fired on a fresh flow it raises and
\* the state stays start.
C17_GoToSqftRefusedFromStart ==
    (Fired /\ obs.trigger = "go_to_sqft" /\ obs.flow_before = NewFlow)
       => (obs.exc # "" /\ fsm.state = "start")

\* C18: for each of the nine states S, receive_negative_response and user_stopped
\* are both among the allowed triggers of S, and fired from S they end in
\* not_interested and in stop respectively.
C18_AlwaysAllowed ==
    /\ \A S \in States :
          {"receive_negative_response", "user_stopped"} \subseteq get_allowed_triggers(S)
    /\ (Fired /\ obs.trigger = "receive_negative_response")
          => (obs.exc = "" /\ fsm.state = "not_interested")
    /\ (Fired /\ obs.trigger = "user_stopped")
          => (obs.exc = "" /\ fsm.state = "stop")

\* user_stopped was fired on a flow that had completed.
C18_Witness ==
    /\ Fired
    /\ obs.trigger = "user_stopped"
    /\ obs.flow_before.state = "done"
    /\ fsm.state = "stop"

\* The three requests that are answered with polite_ack in follow_up.
FollowUpAcks == {"retry_confused", "receive_positive_response", "resume_flow"}

\* C19: in state follow_up, update_fsm with requested trigger retry_confused,
\* receive_positive_response or resume_flow fires polite_ack instead: the result has
\* applied=true, event=polite_ack and to_state=done, the flow is in done and
\* confused_count is what it was (the database answering the reads of the state).
C19_FollowUpAck ==
    fsm.state = "follow_up" =>
       \A T \in FollowUpAcks, kw \in BOOLEAN,
          fails \in {v \in FailureVectors : ~v[1] /\ ~v[3]} :
          \E u \in {tool_update_fsm(fsm, row, T, kw, fails)} :
             /\ u.exc = ""
             /\ u.result.applied = TRUE
             /\ u.result.event = "polite_ack"
             /\ u.result.event_requested = T
             /\ u.result.from_state = "follow_up"
             /\ u.result.to_state = "done"
             /\ u.fsm.state = "done"
             /\ u.fsm.confused_count = fsm.confused_count
             /\ u.result.fsm.confused_count = fsm.confused_count

\* update_fsm has fired polite_ack for a request of another trigger, and the flow,
\* which has been confused before, is in done.
C19_Witness ==
    /\ obs.op = "update_fsm" /\ obs.explicit
    /\ obs.applied = TRUE
    /\ obs.event = "polite_ack" /\ ~obs.as_requested
    /\ fsm.state = "done"
    /\ fsm.confused_count > 0

\* The rule table of the coercer, one case per rule.
RuleTable(s, t) ==
    CASE s = "follow_up" /\ t \in FollowUpAcks -> <<"polite_ack", "coerced_from_follow_up_ack">>
      [] s = "action_sqft" /\ t = "go_to_sqft" -> <<"receive_followup", "coerced_from_gotosqft">>
      [] s = "interested" /\ t = "go_to_sqft"
           -> <<"receive_followup", "coerced_from_gotosqft_and_interested">>
      [] s = "pause" /\ t # "user_stopped" -> <<t, "noop_if_invalid_in_pause">>
      [] OTHER -> <<t, "None">>

Coerced == obs.op = "coerce_event"

\* C20: _coerce_event(state, event) equals the rule table for every pair of the
\* nine states and ten triggers, gives the same answer whatever the flow next to
\* it is, and leaves that flow as it was.
C20_CoerceIsRuleTable ==
    /\ \A s \in States, t \in EXPLICIT_TRIGGERS : coerce_event(s, t) = RuleTable(s, t)
    /\ Coerced => /\ obs.ret = RuleTable(obs.state, obs.event_name)
                  /\ fsm = obs.flow_before

\* _coerce_event was called for pause and a trigger other than user_stopped, next to
\* a flow that is in another state.
C20_Witness ==
    /\ Coerced
    /\ obs.state = "pause" /\ obs.event_name = "receive_negative_response"
    /\ obs.ret = <<"receive_negative_response", "noop_if_invalid_in_pause">>
    /\ fsm.state = "follow_up"

C22_NotAppliedLeavesFlow ==
    \A T \in EXPLICIT_TRIGGERS, kw \in BOOLEAN, fails \in {v \in FailureVectors : ~v[1]} :
       Drawable(fsm, T) =>
          \E u \in {tool_update_fsm(fsm, row, T, kw, fails)} :
             (u.exc = "" /\ u.result.applied = FALSE)
                => /\ u.fsm = fsm
                   /\ tool_update_fsm(u.fsm, u.row, T, kw, fails).result = u.result

\* C23: in every result of update_fsm the reported resulting state equals the
\* flow's state after the call, the reported fsm snapshot equals the snapshot after
\* the call, and allowed_triggers is the allowed set of that state.
C23_ResultTellsTheFlow ==
    \A T \in EXPLICIT_TRIGGERS, kw \in BOOLEAN, fails \in {v \in FailureVectors : ~v[1]} :
       Drawable(fsm, T) =>
          \E u \in {tool_update_fsm(fsm, row, T, kw, fails)} :
             u.exc = ""
                => /\ u.result.to_state = u.fsm.state
                   /\ u.result.fsm = snapshot(u.fsm)
                   /\ u.result.allowed_triggers = get_allowed_triggers(u.fsm.state)

GotContext == obs.op = "get_user_context" /\ obs.exc = ""

\* C24: get_user_context never mutates: after it returns, the flow in memory and
\* the persisted row (existence, statename, was_interested) are what they were
\* before the call, also when no row existed or when the persisted and the
\* in-memory state differed.
C24_GetUserContextReadsOnly ==
    GotContext => (fsm = obs.flow_before /\ row = obs.row_before)

\* C25: the allowed_triggers that get_user_context returns are the allowed set of
\* the state it reports: explicit triggers only, never a to_<state> trigger, so that
\* update_fsm's validation in that state accepts each of them.
C25_ContextListsAllowedSet ==
    GotContext =>
       /\ obs.allowed_triggers = get_allowed_triggers(obs.current_state)
       /\ obs.allowed_triggers \cap AutoTriggers = {}
       /\ \A t \in obs.allowed_triggers :
             ~is_rejected(get_allowed_triggers(obs.current_state), t)

\* Names that are no trigger of the machine: unknown names and the other
\* attributes of the flow object.
NotATrigger == EventNames \ (EXPLICIT_TRIGGERS \cup AutoTriggers)

\* C26: trigger_event called with a name that is not a trigger of the machine
\* raises ValueError and changes neither the flow nor the persisted row, also for
\* names that are other attributes of the flow object (snapshot, mark_interested,
\* increment_confused, max_confused).
C26_NonTriggerRaisesValueError ==
    \A event_name \in NotATrigger, kw \in BOOLEAN, dbFail \in BOOLEAN :
       Drawable(fsm, event_name) =>
          \E t \in {trigger_event(fsm, row, event_name, kw, dbFail)} :
             /\ t.exc = "ValueError"
             /\ t.fsm = fsm
             /\ t.row = row

\* C27: after trigger_event returns True with the database available, the
\* persisted statename is the flow's final state (after a chained pause_flow too)
\* and the persisted was_interested is its previous value or the flow's
\* was_ever_interested; when the call raises, the persisted row is unchanged.
C27_TriggerEventPersists ==
    \A event_name \in EventNames, kw \in BOOLEAN :
       Drawable(fsm, event_name) =>
          \E t \in {trigger_event(fsm, row, event_name, kw, FALSE)} :
             /\ t.exc = ""
                  => /\ t.ret = "True"
                     /\ t.row.present
                     /\ t.row.statename = t.fsm.state
                     /\ t.row.was_interested
                          = ((row.present /\ row.was_interested) \/ t.fsm.was_ever_interested)
             /\ t.exc # "" => t.row = row

\* trigger_event has returned True for the retry that paused the flow, and the
\* row says pause.
C27_Witness ==
    /\ obs.op = "trigger_event" /\ obs.ret = "True" /\ obs.exc = ""
    /\ fsm.state = "pause" /\ fsm.confused_count = 3
    /\ row.present /\ row.statename = "pause"

\* The eight intents and their triggers.
EightIntents ==
    ("yes" :> "receive_positive_response") @@ ("no" :> "receive_negative_response")
    @@ ("stop" :> "user_stopped") @@ ("confused" :> "retry_confused")
    @@ ("resume" :> "resume_flow") @@ ("sqft_ready" :> "go_to_sqft")
    @@ ("followup" :> "receive_followup") @@ ("complete" :> "complete_flow")

ByIntent == obs.op = "change_state_from_intent"

\* C28: change_state_from_intent maps exactly the eight intents to their triggers
\* and does what trigger_event does with the mapped trigger from the current state
\* (sqft_ready on a fresh flow gives action_sqft, then followup gives follow_up);
\* any other intent raises ValueError and changes neither the flow nor the row.
C28_IntentsMapToTriggers ==
    /\ \A intent \in Intents, kw \in BOOLEAN, dbFail \in BOOLEAN :
          Drawable(fsm, intent_map(intent)) =>
             change_state_from_intent(fsm, row, intent, kw, dbFail)
                = IF intent \in DOMAIN EightIntents
                  THEN trigger_event(fsm, row, EightIntents[intent], kw, dbFail)
                  ELSE Res(fsm, row, "", "ValueError")
    /\ (ByIntent /\ obs.intent \notin DOMAIN EightIntents)
          => (obs.exc = "ValueError" /\ fsm = obs.flow_before /\ row = obs.row_before)
    /\ (ByIntent /\ obs.intent = "sqft_ready" /\ obs.flow_before.state = "start"
          /\ obs.exc = "") => fsm.state = "action_sqft"
    /\ (ByIntent /\ obs.intent = "followup" /\ obs.flow_before.state = "action_sqft")
          => (obs.exc = "" /\ fsm.state = "follow_up")

\* followup was given after sqft_ready had put the flow in action_sqft.
C28_Witness ==
    /\ ByIntent /\ obs.intent = "followup" /\ obs.ret = "True"
    /\ obs.flow_before.state = "action_sqft"
    /\ fsm.state = "follow_up"
    /\ row.present /\ row.statename = "follow_up"

Replied == obs.op = "reply_for_state"

\* The template of a state, asked with a snapshot that holds nothing else.
TemplateOf(s) == reply_for_state([flow_state |-> s])

\* C29: reply_for_state is a total function of the snapshot's flow_state: each of
\* the nine states has its own fixed template, any other or missing value gives a
\* fixed text, neither confused_count nor was_ever_interested matters, and the call
\* changes nothing.
C29_ReplyIsTotal ==
    /\ \A s1 \in States, s2 \in States : s1 # s2 => TemplateOf(s1) # TemplateOf(s2)
    /\ \A s \in States : TemplateOf(s) # TemplateOf("no_such_state")
    /\ Replied =>
          /\ fsm = obs.flow_before /\ row = obs.row_before
          /\ obs.ret = IF "flow_state" \in DOMAIN obs.snap
                        THEN TemplateOf(obs.snap.flow_state)
                        ELSE TemplateOf("start")
          /\ ("flow_state" \in DOMAIN obs.snap /\ obs.snap.flow_state \notin States)
                => obs.ret = "I didn't catch that, mind rephrasing?"

\* reply_for_state was asked for the template of confused with a count and a flag
\* that are not those of the flow.
C29_Witness ==
    /\ Replied
    /\ "flow_state" \in DOMAIN obs.snap
    /\ obs.snap.flow_state = "confused" /\ obs.snap.confused_count = 2
    /\ obs.snap.was_ever_interested
    /\ obs.ret = "Sorry, could you clarify?"
    /\ fsm.state = "interested"

\* A step of a request that used the row.
UsedRow == obs.op = "turn" /\ obs.step \in {"read", "trigger_event", "read_after"}

\* C30: nothing keeps two requests for the same phone from interleaving their
\* reads and writes of the row: the next step of a request is possible wherever
\* the other request is, and each use of the row leaves in it the in-memory
\* state of the request that made it.  (The lost update is C30_Witness.)
C30_NothingSerializes ==
    /\ \A p \in TurnIds :
          /\ turns.ctx[p].at = "none" => ENABLED TurnBuildOf(p)
          /\ turns.ctx[p].at = "read" => ENABLED TurnTriggerOf(p)
          /\ turns.ctx[p].at = "fired" => ENABLED TurnReadAfterOf(p)
          /\ turns.ctx[p].at = "built" => ENABLED TurnEndOf(p)
    /\ UsedRow => (row.present /\ row.statename = turns.ctx[obs.turn].fsm.state)

\* Both requests have applied a transition and answered, and the row holds the
\* state of the request that was not the last to apply its transition.
C30_Witness ==
    /\ \A p \in TurnIds : turns.ctx[p].at = "done" /\ turns.ctx[p].fsm.state # "start"
    /\ turns.last \in TurnIds
    /\ row.present
    /\ row.statename # turns.ctx[turns.last].fsm.state
    /\ \E q \in TurnIds \ {turns.last} : row.statename = turns.ctx[q].fsm.state

\* Reasons a result of update_fsm may carry ("None": applied).
Reasons == {"None", "invalid_trigger_for_state", "no_state_change", "machine_error",
            "unexpected_error"}

\* C31: update_fsm never raises to its caller: in every flow state, for every
\* requested name (names that are no triggers too) and with or without kwargs,
\* the database answering the first read, it returns a structured result; a
\* request that the machine has no transition for comes back as a result with
\* applied=false.
C31_UpdateNeverRaises ==
    \A event_name \in EventNames, kw \in BOOLEAN, fails \in {v \in FailureVectors : ~v[1]} :
       Drawable(fsm, event_name) =>
          \E u \in {tool_update_fsm(fsm, row, event_name, kw, fails)} :
             /\ u.exc = ""
             /\ u.result.applied \in BOOLEAN
             /\ u.result.reason \in Reasons
             /\ fsm.state \notin Sources(coerce_event(fsm.state, event_name)[1])
                  => (u.result.applied = FALSE
                      /\ u.result.reason \in {"invalid_trigger_for_state", "machine_error"})

\* update_fsm has answered a request for a name that is no explicit trigger, on a
\* flow that has left start.
C31_Witness ==
    /\ obs.op = "update_fsm" /\ ~obs.explicit
    /\ obs.exc = "" /\ obs.applied = FALSE
    /\ fsm.state = "follow_up"

\* C32: the first service call of a turn uses tool_choice=required; a round of
\* tool calls starts with the flag clear, an update_fsm that returns applied=false
\* sets it and nothing later in the round clears it; the call after the round uses
\* required if the flag is set and auto otherwise.
C32_ToolChoiceFollowsRefusals ==
    [][/\ (pc \notin {"awaiting", "tools"} /\ pc' = "awaiting")
            => (tool_choice' = "required" /\ calls' = 1)
       /\ (pc = "awaiting" /\ pc' = "tools") => force_tool_next' = FALSE
       /\ (pc = "tools" /\ pc' \in {"tools", "awaiting"})
            => force_tool_next'
                 = (force_tool_next \/ (obs'.op = "update_fsm" /\ ~obs'.applied))
       /\ (pc = "tools" /\ pc' = "awaiting")
            => tool_choice' = IF force_tool_next' THEN "required" ELSE "auto"]_vars

\* A round has ended with an update_fsm that was applied, after an update_fsm of
\* the same round that was not: the next call requires a tool.
C32_Witness ==
    /\ pc = "awaiting"
    /\ obs.op = "update_fsm" /\ obs.applied = TRUE
    /\ force_tool_next
    /\ tool_choice = "required"

\* C33: when the service answers without tool calls while the must-use-a-tool flag
\* is set, one more service call with tool_choice=required is made and the flag is
\* cleared; when it does so while the flag is clear, no further call is made and
\* the template reply of the flow is returned.  Hence the second of two
\* consecutive answers without tool calls ends the turn.
C33_PlainAnswers ==
    [][(pc = "awaiting" /\ obs'.op = "service_text") =>
          /\ IF force_tool_next
             THEN /\ pc' = "awaiting"
                  /\ tool_choice' = "required"
                  /\ force_tool_next' = FALSE
                  /\ calls' = Inc(calls)
                  /\ reply' = reply
             ELSE /\ pc' = "returned"
                  /\ calls' = calls
                  /\ reply' = reply_for_state(snapshot(fsm))
          /\ fsm' = fsm /\ row' = row
          /\ obs.op = "service_text" => pc' = "returned"]_vars

\* The turn has ended on the second of two consecutive answers without tool calls.
C33_Witness ==
    /\ pc = "returned"
    /\ obs.op = "service_text" /\ ~obs.forced
    /\ calls = 3
    /\ tool_choice = "required"
    /\ reply = reply_for_state(snapshot(fsm))

\* C34: confused_count never decreases and changes only by +1, by a fired
\* retry_confused; the flow is in pause only if confused_count >= 3 and, between
\* fires, in confused only if confused_count < 3; pause_flow fired in confused with
\* confused_count < 3 changes nothing.
C34_ConfusedCount ==
    /\ fsm.state = "pause" => fsm.confused_count >= 3
    /\ fsm.state = "confused" => fsm.confused_count < 3
    /\ Fired =>
          /\ fsm.confused_count >= obs.flow_before.confused_count
          /\ fsm.confused_count # obs.flow_before.confused_count
               => (obs.trigger = "retry_confused"
                   /\ fsm.confused_count = obs.flow_before.confused_count + 1)
          /\ (obs.trigger = "pause_flow" /\ obs.flow_before.state = "confused"
                /\ obs.flow_before.confused_count < 3) => fsm = obs.flow_before

\* Requests after which the flow is in the state it was in, though the trigger
\* passed validation and fired: the transitions with source '*' fired in their own
\* destination, the retry that is paused again at once, and pause_flow whose
\* condition fails.  (With kwargs the callbacks and the condition raise instead.)
StaysPut(f, T, kw) ==
    \/ f.state = "not_interested" /\ T = "receive_negative_response"
    \/ f.state = "stop" /\ T = "user_stopped"
    \/ ~kw /\ f.state = "confused" /\ T = "retry_confused" /\ f.confused_count + 1 < 3
    \/ ~kw /\ f.state = "pause" /\ T = "retry_confused" /\ f.confused_count + 1 >= 3
    \/ ~kw /\ f.state = "confused" /\ T = "pause_flow" /\ f.confused_count < 3

\* The reason update_fsm gives for request T on the current user, the database
\* answering the reads of the state.
ReasonHere(T, kw, fails) == tool_update_fsm(fsm, row, T, kw, fails).result.reason

\* C35 as stated: update_fsm never returns reason no_state_change: for every
\* reachable flow and each explicit trigger, a fire that passes validation and
\* does not raise changes the state.
C35_NoStateChangeIsDead ==
    \A T \in EXPLICIT_TRIGGERS, kw \in BOOLEAN :
       Drawable(fsm, T) => ReasonHere(T, kw, NoFailure) # "no_state_change"

\* C35 amended: update_fsm returns no_state_change exactly for
\* receive_negative_response in not_interested, user_stopped in stop, and, without
\* kwargs, retry_confused in confused below count 2 or in pause, and pause_flow in
\* confused below count 3; every other fire that passes validation and does not
\* raise changes the state.
C35_NoStateChangeIffStaysPut ==
    \A T \in EXPLICIT_TRIGGERS, kw \in BOOLEAN,
       fails \in {v \in FailureVectors : ~v[1] /\ ~v[3]} :
       Drawable(fsm, T) =>
          (ReasonHere(T, kw, fails) = "no_state_change" <=> StaysPut(fsm, T, kw))

\* update_fsm has answered no_state_change for a retry_confused that left the flow
\* in confused.
C35_Witness ==
    /\ obs.op = "update_fsm" /\ obs.exc = ""
    /\ obs.applied = FALSE /\ obs.reason = "no_state_change"
    /\ obs.event = "retry_confused" /\ obs.as_requested
    /\ fsm.state = "confused"

\* C36: the persisted was_interested of the phone never goes from true to false,
\* whatever the sequence of UserContext constructions, trigger_event,
\* get_current_state, stop keywords and admin edits (reset_state, which deletes
\* the row, aside); and a UserContext built while it is true has
\* was_ever_interested true from the start.
C36_InterestIsSticky ==
    [][(row.present /\ row.was_interested) =>
          /\ obs'.op # "reset_state" => (row'.present /\ row'.was_interested)
          /\ (obs'.op = "UserContext" /\ obs'.exc = "") => fsm'.was_ever_interested]_vars

\* A UserContext was built for a phone whose row says stop and interested: the
\* new flow is in start and has the flag.
C36_Witness ==
    /\ obs.op = "UserContext" /\ obs.exc = ""
    /\ row.present /\ row.was_interested /\ row.statename = "stop"
    /\ fsm.state = "start" /\ fsm.was_ever_interested

\* C37: update_fsm only ever fires one of the ten explicit triggers, registered
\* for state_before: to_<state> triggers and names of other attributes of the flow
\* are refused with invalid_trigger_for_state, and whenever the flow is changed it
\* has moved along the table's edge of the coerced trigger (or, for
\* retry_confused, on to pause).
C37_OnlyTableEdges ==
    \A event_name \in EventNames, kw \in BOOLEAN, fails \in {v \in FailureVectors : ~v[1]} :
       Drawable(fsm, event_name) =>
          \E u \in {tool_update_fsm(fsm, row, event_name, kw, fails)} :
             \E ev \in {coerce_event(fsm.state, event_name)[1]} :
                /\ event_name \notin EXPLICIT_TRIGGERS
                     => /\ u.result.applied = FALSE
                        /\ u.result.reason = "invalid_trigger_for_state"
                        /\ u.fsm = fsm
                /\ u.fsm # fsm
                     => /\ ev \in EXPLICIT_TRIGGERS
                        /\ fsm.state \in Sources(ev)
                        /\ u.fsm.state \in {fsm.state, Dest(ev)}
                                            \cup (IF ev = "retry_confused" THEN {"pause"} ELSE {})

\* update_fsm has refused a name that is no explicit trigger, on a paused flow.
C37_Witness ==
    /\ obs.op = "update_fsm" /\ ~obs.explicit
    /\ obs.reason = "invalid_trigger_for_state"
    /\ fsm.state = "pause"

\* C38: in every flow reached from a fresh one by explicit triggers fired without
\* kwargs, the states interested, action_sqft, follow_up and done are only held by
\* a flow whose was_ever_interested is true.
C38_InterestedStatesAreMarked ==
    fsm.state \in {"interested", "action_sqft", "follow_up", "done"}
        => fsm.was_ever_interested = TRUE

\* go_to_sqft, fired without kwargs on a flow in start that was never interested,
\* has entered action_sqft.
C38_Witness ==
    /\ obs.op = "fire" /\ obs.trigger = "go_to_sqft" /\ ~obs.kw /\ obs.exc = ""
    /\ obs.flow_before.state = "start" /\ ~obs.flow_before.was_ever_interested
    /\ fsm.state = "action_sqft" /\ fsm.was_ever_interested

\* C39: confused_count is never reset, not even by resume_flow: on a flow whose
\* count has reached 3 every retry_confused, from any state, leaves the flow in
\* pause, and no fire leaves it in confused.
C39_PausedForGood ==
    Fired =>
       /\ fsm.confused_count >= obs.flow_before.confused_count
       /\ obs.flow_before.confused_count >= 3 =>
             /\ fsm.state # "confused"
             /\ obs.trigger = "retry_confused" => fsm.state = "pause"

\* After pause and resume_flow, one retry_confused fired without kwargs in start
\* has put the flow back in pause.
C39_PausedAgain ==
    /\ Fired /\ obs.trigger = "retry_confused" /\ ~obs.kw
    /\ obs.flow_before.state = "start" /\ obs.flow_before.confused_count = 3
    /\ fsm.state = "pause" /\ fsm.confused_count = 4

\* C40: while the persisted statename of the phone is stop, every step of a later
\* /sms turn other than an applied update_fsm leaves it at stop, and a turn ending
\* with such a step returns the stop template.
C40_StopSurvivesTurn ==
    [][(/\ row.present /\ row.statename = "stop"
        /\ origin = "sms" /\ pc \in {"awaiting", "tools"}
        /\ ~(obs'.op = "update_fsm" /\ obs'.applied))
          => /\ row'.present /\ row'.statename = "stop"
             /\ pc' = "returned" => reply' = reply_for_state([flow_state |-> "stop"])]_vars

====
